---- MODULE Spec2Model ----
(***************************************************************************)
(* Model of the orm iterator / pagination layer (package orm, iterator.go): *)
(* First, ReadAll and Paginate draining an Iterator into a destination.     *)
(*                                                                          *)
(* Go values are modelled as follows.                                       *)
(*   - a slice ([]byte, []RowID, []Model) is a record [isNil, elems]: Go    *)
(*     distinguishes a nil slice from an empty one (key != nil at line 132  *)
(*     against len(key) != 0 at lines 195 and 202).                         *)
(*   - an error is a string; NoErr is the nil error.                        *)
(*   - uint64 offset/limit/count are naturals far below 2^64: no sum in the *)
(*     model wraps.                                                         *)
(***************************************************************************)
EXTENDS Integers, Sequences, FiniteSets, TLC

\* ------------------------------------------------------------------ bounds
MaxN == 4          \* short iterators hold 0..MaxN records
MaxErrPos == 3     \* LoadNext may fail at positions 1..MaxErrPos
MaxOffset == 2     \* PageRequest.Offset ranges over 0..MaxOffset
MaxLimit == 2      \* PageRequest.Limit ranges over 0..MaxLimit
MaxMax == 3        \* LimitIterator is built with max in 0..MaxMax
MaxCalls == 4      \* a caller makes at most MaxCalls direct iterator calls

\* ------------------------------------------------------------- Go values
NilSlice == [isNil |-> TRUE, elems |-> <<>>]

MkSlice(s) == [isNil |-> FALSE, elems |-> s]

\* len(s): 0 for a nil slice
len(s) == Len(s.elems)

\* append(s, x) / reflect.Append: the result is never nil
append(s, x) == [isNil |-> FALSE, elems |-> Append(s.elems, x)]

NoErr == "nil"

ErrIteratorDone == "ErrIteratorDone"

ErrArgument == "ErrArgument"

\* the plain fmt.Errorf error of Paginate, not wrapped in ErrArgument
ErrRequest == "invalid request, either offset or key is expected, got both"

\* an opaque error of the record's Unmarshal surfaced by LoadNext
ErrDecode == "ErrDecode"

ErrIteratorInvalid == "ErrIteratorInvalid"

\* an opaque error returned by the Close of a storage iterator
ErrClose == "ErrClose"

\* ------------------------------------------------------------- the store
\* The record at store position j: its RowID (a non-empty byte string) and
\* its decoded value.
RowIDOf(j) == MkSlice(<<j>>)

RecOf(j) == j

\* ------------------------------------------------------------- Iterator
\* An iterator handed over by the storage layer: it is positioned before
\* items[1]; items[j].err is the error LoadNext returns for that record.
\* loads and closes count the LoadNext and Close calls made on it.
\* Every iterator is a record of the same fields; a kind uses its own:
\*   "seq"      items, pos, closeErr
\*   "single"   rowID, val, closed        (NewSingleValueIterator)
\*   "invalid"                            (NewInvalidIterator)
\*   "limited"  remainingCount, parent    (LimitedIterator; parent is <<p>>)
\* max remembers the max a limited iterator was built with.
NilIterator ==
    [kind |-> "nil", items |-> <<>>, pos |-> 0, loads |-> 0, closes |-> 0,
     closeErr |-> NoErr, rowID |-> NilSlice, val |-> NilSlice, closed |-> FALSE,
     remainingCount |-> 0, max |-> 0, parent |-> <<>>]

SeqIterator(n, errs) ==
    [NilIterator EXCEPT
        !.kind = "seq",
        !.items = [j \in 1..n |-> [rowID |-> RowIDOf(j), rec |-> RecOf(j),
                                   err |-> IF j \in errs THEN ErrDecode ELSE NoErr]]]

\* it.LoadNext(dest): the iterator after the call, the RowID, the record
\* decoded into dest and the error.
LoadNext(i) ==
    IF i.pos >= Len(i.items)
    THEN [it |-> [i EXCEPT !.loads = @ + 1],
          rowID |-> NilSlice, rec |-> 0, err |-> ErrIteratorDone]
    ELSE LET item == i.items[i.pos + 1] IN
         [it |-> [i EXCEPT !.pos = @ + 1, !.loads = @ + 1],
          rowID |-> item.rowID, rec |-> item.rec, err |-> item.err]

\* it.Close()
Close(i) == [i EXCEPT !.closes = @ + 1]

\* a storage iterator whose Close returns the error e
WithCloseErr(i, e) == [i EXCEPT !.closeErr = e]

\* ------------------------------------------------- Decodable Record Contract
\* The encoding of a record: the zero record is the empty buffer, the record
\* r > 0 the one byte r. A buffer starting with byte 0 is no encoding.
Unmarshal(buf) ==
    IF len(buf) = 0 THEN [rec |-> 0, err |-> NoErr]
    ELSE IF buf.elems[1] = 0 THEN [rec |-> 0, err |-> ErrDecode]
    ELSE [rec |-> buf.elems[1], err |-> NoErr]

\* the buffers a single-value iterator is built from: absent, zero-length,
\* the encoding of a record, and bytes that do not decode
Bufs == {NilSlice, MkSlice(<<>>), MkSlice(<<RecOf(1)>>), MkSlice(<<0>>)}

\* ------------------------------------------------- single-value iterator
NewSingleValueIterator(rowID, val) ==
    [NilIterator EXCEPT !.kind = "single", !.rowID = rowID, !.val = val]

\* the closure of NewSingleValueIterator without "closed = true"
SingleLoadNext_NeverClosed(i, destNil) ==
    IF destNil
    THEN [it |-> [i EXCEPT !.loads = @ + 1],
          rowID |-> NilSlice, rec |-> 0, err |-> ErrArgument]
    ELSE IF i.closed \/ i.val.isNil
    THEN [it |-> [i EXCEPT !.loads = @ + 1],
          rowID |-> NilSlice, rec |-> 0, err |-> ErrIteratorDone]
    ELSE LET u == Unmarshal(i.val) IN
         [it |-> [i EXCEPT !.loads = @ + 1],
          rowID |-> i.rowID, rec |-> u.rec, err |-> u.err]

\* the closure of NewSingleValueIterator: LoadNext(dest), destNil telling
\* whether dest == nil
SingleLoadNext(i, destNil) ==
    IF destNil
    THEN [it |-> [i EXCEPT !.loads = @ + 1],
          rowID |-> NilSlice, rec |-> 0, err |-> ErrArgument]
    ELSE IF i.closed \/ i.val.isNil
    THEN [it |-> [i EXCEPT !.loads = @ + 1],
          rowID |-> NilSlice, rec |-> 0, err |-> ErrIteratorDone]
    ELSE LET u == Unmarshal(i.val) IN
         [it |-> [i EXCEPT !.closed = TRUE, !.loads = @ + 1],
          rowID |-> i.rowID, rec |-> u.rec, err |-> u.err]

\* ------------------------------------------------------ invalid iterator
NewInvalidIterator == [NilIterator EXCEPT !.kind = "invalid"]

\* the closure of NewInvalidIterator reporting exhaustion once it was closed
InvalidLoadNext_DoneAfterClose(i, destNil) ==
    [it |-> [i EXCEPT !.loads = @ + 1], rowID |-> NilSlice, rec |-> 0,
     err |-> IF i.closes > 0 THEN ErrIteratorDone ELSE ErrIteratorInvalid]

\* the closure of NewInvalidIterator
InvalidLoadNext(i, destNil) ==
    [it |-> [i EXCEPT !.loads = @ + 1],
     rowID |-> NilSlice, rec |-> 0, err |-> ErrIteratorInvalid]

\* ------------------------------------------------------- LimitedIterator
\* LimitIterator panics on these arguments
LimitIteratorPanics(parent, max) == max < 0 \/ parent.kind = "nil"

\* LimitIterator(parent, max), for arguments it does not panic on
LimitIterator(parent, max) ==
    [NilIterator EXCEPT !.kind = "limited", !.remainingCount = max,
                        !.max = max, !.parent = <<parent>>]

RECURSIVE IterLoadNext(_, _)

\* LimitedIterator.LoadNext decrementing the count before it tests it
LimitedLoadNext_DecrFirst(i, destNil) ==
    IF i.remainingCount - 1 = 0
    THEN [it |-> [i EXCEPT !.remainingCount = @ - 1, !.loads = @ + 1],
          rowID |-> NilSlice, rec |-> 0, err |-> ErrIteratorDone]
    ELSE LET n == IterLoadNext(i.parent[1], destNil) IN
         [it |-> [i EXCEPT !.remainingCount = @ - 1, !.parent = <<n.it>>,
                           !.loads = @ + 1],
          rowID |-> n.rowID, rec |-> n.rec, err |-> n.err]

\* LimitedIterator.LoadNext testing the count after the parent's LoadNext
LimitedLoadNext_TestLate(i, destNil) ==
    LET n == IterLoadNext(i.parent[1], destNil) IN
    IF i.remainingCount = 0
    THEN [it |-> [i EXCEPT !.loads = @ + 1, !.parent = <<n.it>>],
          rowID |-> NilSlice, rec |-> 0, err |-> ErrIteratorDone]
    ELSE [it |-> [i EXCEPT !.remainingCount = @ - 1, !.parent = <<n.it>>,
                           !.loads = @ + 1],
          rowID |-> n.rowID, rec |-> n.rec, err |-> n.err]

\* LimitedIterator.LoadNext
LimitedLoadNext(i, destNil) ==
    IF i.remainingCount = 0
    THEN [it |-> [i EXCEPT !.loads = @ + 1],
          rowID |-> NilSlice, rec |-> 0, err |-> ErrIteratorDone]
    ELSE LET n == IterLoadNext(i.parent[1], destNil) IN
         [it |-> [i EXCEPT !.remainingCount = @ - 1, !.parent = <<n.it>>,
                           !.loads = @ + 1],
          rowID |-> n.rowID, rec |-> n.rec, err |-> n.err]

\* A storage iterator given a nil destination: ErrArgument, nothing consumed.
SeqLoadNext(i, destNil) ==
    IF destNil
    THEN [it |-> [i EXCEPT !.loads = @ + 1],
          rowID |-> NilSlice, rec |-> 0, err |-> ErrArgument]
    ELSE LoadNext(i)

\* it.LoadNext(dest) through the Iterator interface
IterLoadNext(i, destNil) ==
    IF i.kind = "single" THEN SingleLoadNext(i, destNil)
    ELSE IF i.kind = "invalid" THEN InvalidLoadNext(i, destNil)
    ELSE IF i.kind = "limited" THEN LimitedLoadNext(i, destNil)
    ELSE SeqLoadNext(i, destNil)

RECURSIVE IterClose(_)

\* LimitedIterator.Close: the parent's Close and its result
LimitedClose(i) ==
    LET c == IterClose(i.parent[1]) IN
    [it |-> [i EXCEPT !.closes = @ + 1, !.parent = <<c.it>>], err |-> c.err]

\* IteratorFunc.Close: always nil
IteratorFuncClose(i) == [it |-> Close(i), err |-> NoErr]

\* it.Close() through the Iterator interface: the iterator and the error
IterClose(i) ==
    IF i.kind = "limited" THEN LimitedClose(i)
    ELSE IF i.kind = "seq" THEN [it |-> Close(i), err |-> i.closeErr]
    ELSE IteratorFuncClose(i)

\* ------------------------------------------------------------ assertDest
\* The shapes of a ModelSlicePtr the caller can pass.
DestKinds == {"nil", "nonPtr", "ptrNonSlice", "ptrSliceNonProto", "ptrSliceProto"}

\* assertDest without the test that the element type is a ProtoMarshaler
assertDest_NoElemTest(d) ==
    IF d.kind = "nil" THEN [err |-> ErrArgument, tmpSlice |-> NilSlice]
    ELSE IF d.kind = "nonPtr" THEN [err |-> ErrArgument, tmpSlice |-> NilSlice]
    ELSE IF d.kind = "ptrNonSlice" THEN [err |-> ErrArgument, tmpSlice |-> NilSlice]
    ELSE [err |-> NoErr, tmpSlice |-> MkSlice(<<>>)]

\* assertDest: the error, and the empty non-nil tmpSlice made on success.
assertDest(d) ==
    IF d.kind = "nil" THEN [err |-> ErrArgument, tmpSlice |-> NilSlice]
    ELSE IF d.kind = "nonPtr" THEN [err |-> ErrArgument, tmpSlice |-> NilSlice]
    ELSE IF d.kind = "ptrNonSlice" THEN [err |-> ErrArgument, tmpSlice |-> NilSlice]
    ELSE IF d.kind = "ptrSliceNonProto" THEN [err |-> ErrArgument, tmpSlice |-> NilSlice]
    ELSE [err |-> NoErr, tmpSlice |-> MkSlice(<<>>)]

\* destRef.Set(tmpSlice)
SetDest(d, tmpSlice) == [d EXCEPT !.slice = tmpSlice]

\* ------------------------------------------------------------------ First
\* First loading a second record when the first LoadNext fails
First_Retries(i, m) ==
    IF i.kind = "nil"
    THEN [it |-> i, model |-> m, rowID |-> NilSlice, err |-> ErrArgument]
    ELSE LET n1 == LoadNext(i)
             n == IF n1.err # NoErr THEN LoadNext(n1.it) ELSE n1 IN
         IF n.err # NoErr
         THEN [it |-> Close(n.it), model |-> m, rowID |-> NilSlice, err |-> n.err]
         ELSE [it |-> Close(n.it), model |-> [isNil |-> FALSE, val |-> n.rec],
               rowID |-> n.rowID, err |-> NoErr]

\* First(it, dest): the iterator and the destination model after the call,
\* and the returned (RowID, error).
First(i, m) ==
    IF i.kind = "nil"
    THEN [it |-> i, model |-> m, rowID |-> NilSlice, err |-> ErrArgument]
    ELSE LET n == LoadNext(i) IN
         IF n.err # NoErr
         THEN [it |-> Close(n.it), model |-> m, rowID |-> NilSlice, err |-> n.err]
         ELSE [it |-> Close(n.it), model |-> [isNil |-> FALSE, val |-> n.rec],
               rowID |-> n.rowID, err |-> NoErr]

\* ---------------------------------------------------------------- ReadAll
\* ReadAllIter without destRef.Set(tmpSlice) at IteratorDone
ReadAllIter_NoCommit(s) ==
    LET n == LoadNext(s.it) IN
    IF n.err = NoErr
    THEN [s EXCEPT !.it = n.it,
                   !.tmpSlice = append(s.tmpSlice, n.rec),
                   !.rowIDs = append(s.rowIDs, n.rowID)]
    ELSE IF n.err = ErrIteratorDone
    THEN [s EXCEPT !.it = n.it, !.ctl = "return"]
    ELSE [s EXCEPT !.it = n.it, !.rowIDs = NilSlice, !.err = n.err, !.ctl = "return"]

\* ReadAllIter committing the partial tmpSlice when LoadNext fails
ReadAllIter_CommitOnError(s) ==
    LET n == LoadNext(s.it) IN
    IF n.err = NoErr
    THEN [s EXCEPT !.it = n.it,
                   !.tmpSlice = append(s.tmpSlice, n.rec),
                   !.rowIDs = append(s.rowIDs, n.rowID)]
    ELSE IF n.err = ErrIteratorDone
    THEN [s EXCEPT !.it = n.it,
                   !.dest = SetDest(s.dest, s.tmpSlice),
                   !.ctl = "return"]
    ELSE [s EXCEPT !.it = n.it, !.dest = SetDest(s.dest, s.tmpSlice),
                   !.rowIDs = NilSlice, !.err = n.err, !.ctl = "return"]

\* One pass of the for loop of ReadAll over the loop state
\* s = [it, dest, tmpSlice, rowIDs, err, ctl]; ctl tells whether the loop
\* goes on ("loop") or the function has returned ("return").
ReadAllIter(s) ==
    LET n == LoadNext(s.it) IN
    IF n.err = NoErr
    THEN [s EXCEPT !.it = n.it,
                   !.tmpSlice = append(s.tmpSlice, n.rec),
                   !.rowIDs = append(s.rowIDs, n.rowID)]
    ELSE IF n.err = ErrIteratorDone
    THEN [s EXCEPT !.it = n.it,
                   !.dest = SetDest(s.dest, s.tmpSlice),
                   !.ctl = "return"]
    ELSE [s EXCEPT !.it = n.it, !.rowIDs = NilSlice, !.err = n.err, !.ctl = "return"]

RECURSIVE ReadAllLoop(_)
ReadAllLoop(s) ==
    LET t == ReadAllIter(s) IN
    IF t.ctl = "loop" THEN ReadAllLoop(t) ELSE t

\* ReadAll(it, dest): the iterator and the destination after the call, and
\* the returned ([]RowID, error).
ReadAll(i, d) ==
    IF i.kind = "nil"
    THEN [it |-> i, dest |-> d, rowIDs |-> NilSlice, err |-> ErrArgument]
    ELSE LET a == assertDest(d) IN
         IF a.err # NoErr
         THEN [it |-> Close(i), dest |-> d, rowIDs |-> NilSlice, err |-> a.err]
         ELSE LET t == ReadAllLoop([it |-> i, dest |-> d, tmpSlice |-> a.tmpSlice,
                                    rowIDs |-> NilSlice, err |-> NoErr, ctl |-> "loop"])
              IN [it |-> Close(t.it), dest |-> t.dest, rowIDs |-> t.rowIDs, err |-> t.err]

\* --------------------------------------------------------------- Paginate
\* The limit used when PageRequest.Limit is 0.
DefaultLimit == 100

\* pageRequest == nil: &query.PageRequest{}
NilPageRequest ==
    [isNil |-> TRUE, Offset |-> 0, Key |-> NilSlice, Limit |-> 0, CountTotal |-> FALSE]

NilPageResponse == [isNil |-> TRUE, NextKey |-> NilSlice, Total |-> 0]

\* offset > 0 && key != nil
BothOffsetAndKey(offset, key) == offset > 0 /\ ~key.isNil

\* EffCountTotal without "countTotal = true": limit 0 leaves the caller's flag
EffCountTotal_NotForced(limit, countTotal) == countTotal

\* if limit == 0 { limit = 100; countTotal = true }
EffLimit(limit) == IF limit = 0 THEN DefaultLimit ELSE limit

EffCountTotal(limit, countTotal) == IF limit = 0 THEN TRUE ELSE countTotal

\* InOffsetWindow skipping one record less than offset
InOffsetWindow_Strict(count, offset) == count < offset

\* count <= offset: the record is skipped
InOffsetWindow(count, offset) == count <= offset

\* InPage with an off-by-one window: the record at position end is left out
InPage_Short(count, end) == count < end

\* count <= end: the record is appended to tmpSlice
InPage(count, end) == count <= end

\* AtNextKey taking the RowID one record late
AtNextKey_Late(count, end) == count = end + 2

\* count == end+1: the record's RowID becomes nextKey
AtNextKey(count, end) == count = end + 1

\* StopScan without the len(key) != 0 test
StopScan_IgnoresKey(countTotal, key) == ~countTotal

\* !countTotal || len(key) != 0: the scan stops once nextKey is known
StopScan(countTotal, key) == ~countTotal \/ len(key) # 0

\* PageTotal without the len(key) == 0 test
PageTotal_IgnoresKey(countTotal, key, count) == IF countTotal THEN count ELSE 0

\* res.Total: count when countTotal && len(key) == 0, else the zero value
PageTotal(countTotal, key, count) ==
    IF countTotal /\ len(key) = 0 THEN count ELSE 0

\* One pass of the for loop of Paginate over the loop state
\* s = [it, dest, tmpSlice, count, nextKey, err, ctl]; ctl is "loop" while
\* the loop goes on, "break" after a break and "return" after return nil, err.
PaginateIter(s, offset, end, countTotal, key) ==
    LET n == LoadNext(s.it)
        count == s.count + 1 IN
    IF n.err = ErrIteratorDone
    THEN [s EXCEPT !.it = n.it,
                   !.dest = SetDest(s.dest, s.tmpSlice),
                   !.ctl = "break"]
    ELSE IF InOffsetWindow(count, offset)
    THEN [s EXCEPT !.it = n.it, !.count = count]
    ELSE IF n.err # NoErr
    THEN [s EXCEPT !.it = n.it, !.count = count, !.err = n.err, !.ctl = "return"]
    ELSE IF InPage(count, end)
    THEN [s EXCEPT !.it = n.it, !.count = count,
                   !.tmpSlice = append(s.tmpSlice, n.rec)]
    ELSE IF AtNextKey(count, end)
    THEN [s EXCEPT !.it = n.it, !.count = count,
                   !.nextKey = n.rowID,
                   !.dest = SetDest(s.dest, s.tmpSlice),
                   !.ctl = IF StopScan(countTotal, key) THEN "break" ELSE "loop"]
    ELSE [s EXCEPT !.it = n.it, !.count = count]

RECURSIVE PaginateLoop(_, _, _, _, _)
PaginateLoop(s, offset, end, countTotal, key) ==
    LET t == PaginateIter(s, offset, end, countTotal, key) IN
    IF t.ctl = "loop" THEN PaginateLoop(t, offset, end, countTotal, key) ELSE t

\* Paginate(it, pageRequest, dest): the iterator and the destination after
\* the call, and the returned (*PageResponse, error).
Paginate(i, pageRequest, d) ==
    LET offset == pageRequest.Offset
        key == pageRequest.Key
        limit == EffLimit(pageRequest.Limit)
        countTotal == EffCountTotal(pageRequest.Limit, pageRequest.CountTotal)
    IN
    IF BothOffsetAndKey(offset, key)
    THEN [it |-> i, dest |-> d, res |-> NilPageResponse, err |-> ErrRequest]
    ELSE IF i.kind = "nil"
    THEN [it |-> i, dest |-> d, res |-> NilPageResponse, err |-> ErrArgument]
    ELSE LET a == assertDest(d) IN
         IF a.err # NoErr
         THEN [it |-> Close(i), dest |-> d, res |-> NilPageResponse, err |-> a.err]
         ELSE LET t == PaginateLoop([it |-> i, dest |-> d, tmpSlice |-> a.tmpSlice,
                                     count |-> 0, nextKey |-> NilSlice,
                                     err |-> NoErr, ctl |-> "loop"],
                                    offset, offset + limit, countTotal, key)
              IN IF t.ctl = "return"
                 THEN [it |-> Close(t.it), dest |-> t.dest,
                       res |-> NilPageResponse, err |-> t.err]
                 ELSE [it |-> Close(t.it), dest |-> t.dest,
                       res |-> [isNil |-> FALSE, NextKey |-> t.nextKey,
                                Total |-> PageTotal(countTotal, key, t.count)],
                       err |-> NoErr]

\* ------------------------------------------------------------------ state
VARIABLES
    it,           \* the Iterator the caller holds
    dest,         \* the caller's ModelSlicePtr destination: [kind, slice]
    model,        \* the caller's single-record destination of First
    pageRequest,  \* the *query.PageRequest of the Paginate call
    op,           \* the retrieval operation that has returned, "none" before
    ret,          \* what it returned: [err, rowID, rowIDs, res]
    log,          \* the direct LoadNext / Close calls made on it, in order
    pages         \* a client paging through a store: [store, off, key]

vars == <<it, dest, model, pageRequest, op, ret, log, pages>>

\* lengths of the iterators: short ones, and ones around DefaultLimit
Lens == (0..MaxN) \cup {DefaultLimit + k : k \in 0..(MaxOffset + 1)}

Iterators ==
    {NilIterator} \cup
    {SeqIterator(n, errs) : n \in Lens, errs \in SUBSET (1..MaxErrPos)}

Keys == {NilSlice, MkSlice(<<>>), MkSlice(<<1>>)}

PageRequests ==
    {NilPageRequest} \cup
    {[isNil |-> FALSE, Offset |-> o, Key |-> k, Limit |-> l, CountTotal |-> c] :
        o \in 0..MaxOffset, k \in Keys, l \in 0..MaxLimit, c \in BOOLEAN}

\* a destination slice is nil or already holds a record of an earlier query
Dests ==
    {[kind |-> k, slice |-> NilSlice] : k \in DestKinds} \cup
    {[kind |-> "ptrSliceProto", slice |-> MkSlice(<<0>>)]}

NoRet == [err |-> NoErr, rowID |-> NilSlice, rowIDs |-> NilSlice, res |-> NilPageResponse]

\* no paging session
NoPages == [store |-> <<>>, off |-> <<>>, key |-> <<>>]

Init ==
    /\ it \in Iterators
    /\ dest \in Dests
    /\ model = [isNil |-> FALSE, val |-> 0]
    /\ pageRequest = NilPageRequest
    /\ op = "none"
    /\ ret = NoRet
    /\ log = <<>>
    /\ pages = NoPages

\* the caller runs First(it, model)
DoFirst ==
    /\ op = "none"
    /\ LET r == First(it, model) IN
       /\ it' = r.it
       /\ model' = r.model
       /\ ret' = [NoRet EXCEPT !.err = r.err, !.rowID = r.rowID]
    /\ op' = "First"
    /\ UNCHANGED <<dest, pageRequest, log, pages>>

\* the caller runs ReadAll(it, dest)
DoReadAll ==
    /\ op = "none"
    /\ LET r == ReadAll(it, dest) IN
       /\ it' = r.it
       /\ dest' = r.dest
       /\ ret' = [NoRet EXCEPT !.err = r.err, !.rowIDs = r.rowIDs]
    /\ op' = "ReadAll"
    /\ UNCHANGED <<model, pageRequest, log, pages>>

\* the caller runs Paginate(it, pr, dest)
DoPaginate ==
    /\ op = "none"
    /\ \E pr \in PageRequests :
        /\ pageRequest' = pr
        /\ LET r == Paginate(it, pr, dest) IN
           /\ it' = r.it
           /\ dest' = r.dest
           /\ ret' = [NoRet EXCEPT !.err = r.err, !.res = r.res]
    /\ op' = "Paginate"
    /\ UNCHANGED <<model, log, pages>>

Next == DoFirst \/ DoReadAll \/ DoPaginate

Spec == Init /\ [][Next]_vars

\* ------------------------------------------- direct use of the iterators
\* the parents a LimitedIterator wraps
Parents ==
    {WithCloseErr(SeqIterator(n, errs), e) :
        n \in 0..MaxN, errs \in SUBSET (1..MaxErrPos), e \in {NoErr, ErrClose}}
    \cup {NewSingleValueIterator(RowIDOf(1), v) : v \in Bufs}
    \cup {NewInvalidIterator}

DirectIterators ==
    {NewSingleValueIterator(RowIDOf(1), v) : v \in Bufs}
    \cup {NewInvalidIterator}
    \cup {LimitIterator(p, m) : p \in Parents, m \in 0..MaxMax}

IterInit ==
    /\ it \in DirectIterators
    /\ dest = [kind |-> "nil", slice |-> NilSlice]
    /\ model = [isNil |-> FALSE, val |-> 0]
    /\ pageRequest = NilPageRequest
    /\ op = "none"
    /\ ret = NoRet
    /\ log = <<>>
    /\ pages = NoPages

\* the caller calls it.LoadNext(dest) with dest = nil or dest = &model
CallLoadNext ==
    /\ Len(log) < MaxCalls
    /\ \E destNil \in BOOLEAN :
        LET n == IterLoadNext(it, destNil) IN
        /\ it' = n.it
        /\ model' = IF ~destNil /\ n.err = NoErr
                    THEN [isNil |-> FALSE, val |-> n.rec] ELSE model
        /\ ret' = [NoRet EXCEPT !.err = n.err, !.rowID = n.rowID]
        /\ log' = Append(log, [call |-> "LoadNext", destNil |-> destNil,
                               rowID |-> n.rowID, rec |-> n.rec, err |-> n.err])
    /\ UNCHANGED <<dest, pageRequest, op, pages>>

\* the caller calls it.Close()
CallClose ==
    /\ Len(log) < MaxCalls
    /\ LET c == IterClose(it) IN
        /\ it' = c.it
        /\ ret' = [NoRet EXCEPT !.err = c.err]
        /\ log' = Append(log, [call |-> "Close", destNil |-> FALSE,
                               rowID |-> NilSlice, rec |-> 0, err |-> c.err])
    /\ UNCHANGED <<dest, model, pageRequest, op, pages>>

IterNext == CallLoadNext \/ CallClose

IterSpec == IterInit /\ [][IterNext]_vars

\* ------------------------------------------------------------ properties
\* the number of records the iterator holds
N == Len(it.items)

\* the iterator yields all its records without error
NoErrItems == \A j \in 1..N : it.items[j].err = NoErr

\* the position of the first record whose LoadNext fails (0: none)
FirstErrPos(i) ==
    IF \A j \in 1..Len(i.items) : i.items[j].err = NoErr
    THEN 0
    ELSE CHOOSE j \in 1..Len(i.items) :
            /\ i.items[j].err # NoErr
            /\ \A k \in 1..(j - 1) : i.items[k].err = NoErr

Min(a, b) == IF a < b THEN a ELSE b

\* the request of the call: offset, the limit in effect and end
ReqOffset == pageRequest.Offset

ReqLimit == IF pageRequest.Limit = 0 THEN 100 ELSE pageRequest.Limit

ReqEnd == ReqOffset + ReqLimit

\* countTotal in effect: asked for, or forced by limit = 0
ReqCountTotal == pageRequest.CountTotal \/ pageRequest.Limit = 0

\* a cursor key was supplied: a key of at least one byte
ReqHasKey == Len(pageRequest.Key.elems) > 0

\* Paginate has returned without error
PaginateOK == op = "Paginate" /\ ret.err = NoErr

\* the records at positions lo+1 .. hi of the iterator, in iterator order
RecsBetween(lo, hi) ==
    IF hi <= lo THEN <<>> ELSE [k \in 1..(hi - lo) |-> it.items[lo + k].rec]

\* C1: each of First, ReadAll and Paginate called with a non-nil iterator has
\* called Close on it exactly once when it returns, on every return path.
C1_CloseExactlyOnce ==
    (op # "none" /\ it.kind # "nil") => it.closes = 1

\* C2: Paginate called with offset > 0 and a key set returns the plain
\* request-shape error, makes no LoadNext call, leaves the destination
\* unchanged, and has closed the iterator when it returns.
C2_BothOffsetAndKeyRejected ==
    [][(/\ op' = "Paginate"
        /\ it.kind # "nil"
        /\ pageRequest'.Offset > 0
        /\ ~pageRequest'.Key.isNil)
       => (/\ ret'.err = ErrRequest
           /\ it'.loads = it.loads
           /\ dest' = dest
           /\ it'.closes = it.closes + 1)]_vars

\* C3: when Paginate succeeds over an iterator of N error-free records, the
\* destination holds exactly the records at positions offset+1 .. min(end, N)
\* in iterator order and nothing else; it is empty when offset >= N.
C3_PageContents ==
    (PaginateOK /\ NoErrItems) =>
        /\ ~dest.slice.isNil
        /\ dest.slice.elems = RecsBetween(ReqOffset, Min(ReqEnd, N))
        /\ (ReqOffset >= N => dest.slice.elems = <<>>)

\* a page taken from the middle of the iterator, with records before and after
C3_Witness ==
    /\ PaginateOK /\ NoErrItems
    /\ ReqOffset = 1 /\ pageRequest.Limit = 2 /\ N = 4
    /\ dest.slice.elems = <<RecOf(2), RecOf(3)>>

\* C4: when Paginate succeeds over an iterator of N error-free records,
\* nextKey is the RowID of the record at position end+1 when N > end and is
\* absent when N <= end, whatever countTotal and key are.
C4_NextKey ==
    (PaginateOK /\ NoErrItems) =>
        ret.res.NextKey = IF N > ReqEnd THEN it.items[ReqEnd + 1].rowID ELSE NilSlice

\* cursor paging with countTotal set, and a record after the page
C4_Witness ==
    /\ PaginateOK /\ NoErrItems
    /\ ReqHasKey /\ pageRequest.CountTotal /\ pageRequest.Limit = 2 /\ N = 4
    /\ ret.res.NextKey = RowIDOf(3)

\* C5: when Paginate succeeds over an iterator of N error-free records, total
\* is N if countTotal is in effect and no key was supplied, for any offset
\* including offset >= N; in every other case total is zero.
C5_Total ==
    (PaginateOK /\ NoErrItems) =>
        ret.res.Total = IF ReqCountTotal /\ ~ReqHasKey THEN N ELSE 0

\* the offset lies past the last record and the total is still reported
C5_Witness ==
    /\ PaginateOK /\ NoErrItems
    /\ pageRequest.CountTotal /\ pageRequest.Limit = 1 /\ ~ReqHasKey
    /\ N = 1 /\ ReqOffset = 2
    /\ ret.res.Total = 1 /\ dest.slice.elems = <<>>

\* C6: Paginate with a nil page request, or with limit = 0, behaves as
\* limit = 100 with countTotal forced to true: with offset 0 and no key it
\* returns the first min(N, 100) records, nextKey = RowID of record 101 when
\* N > 100, and total = N.
C6_DefaultRequest ==
    (/\ PaginateOK /\ NoErrItems
     /\ (pageRequest.isNil \/ pageRequest.Limit = 0)
     /\ ReqOffset = 0 /\ ~ReqHasKey) =>
        /\ dest.slice.elems = RecsBetween(0, Min(N, 100))
        /\ ret.res.NextKey = IF N > 100 THEN it.items[101].rowID ELSE NilSlice
        /\ ret.res.Total = N

\* a nil request over more than 100 records
C6_Witness ==
    /\ PaginateOK /\ NoErrItems
    /\ pageRequest.isNil /\ N > 101
    /\ Len(dest.slice.elems) = 100
    /\ ret.res.NextKey = RowIDOf(101)
    /\ ret.res.Total = N

\* C7: whenever Paginate returns a non-Done LoadNext error met at a position
\* count > offset, the destination holds what it held before the call, also
\* for errors at positions beyond end+1.
C7_ErrorLeavesDest ==
    [][(op' = "Paginate" /\ ret'.err = ErrDecode) => dest' = dest]_vars

\* C8: Paginate returns the non-Done error LoadNext gave for a record inside
\* the offset window (count <= offset) instead of skipping the record.
C8_OffsetWindowErrorPropagated ==
    (/\ op = "Paginate"
     /\ it.kind # "nil"
     /\ dest.kind = "ptrSliceProto"
     /\ ~(pageRequest.Offset > 0 /\ ~pageRequest.Key.isNil)
     /\ FirstErrPos(it) # 0
     /\ FirstErrPos(it) <= ReqOffset) =>
        ret.err = it.items[FirstErrPos(it)].err

\* C9: ReadAll over an iterator of N >= 0 error-free records returns no
\* error, commits exactly those N records in iterator order, and returns the
\* N RowIDs in the same order; for N = 0 the destination is an empty non-nil
\* sequence and the RowID list is empty.
C9_ReadAllContents ==
    (/\ op = "ReadAll"
     /\ it.kind # "nil"
     /\ dest.kind = "ptrSliceProto"
     /\ NoErrItems) =>
        /\ ret.err = NoErr
        /\ dest.slice = MkSlice(RecsBetween(0, N))
        /\ ret.rowIDs.elems = [j \in 1..N |-> it.items[j].rowID]
        /\ (N = 0 => dest.slice = MkSlice(<<>>) /\ ret.rowIDs.elems = <<>>)

\* ReadAll has drained an iterator of several records
C9_Witness ==
    /\ op = "ReadAll" /\ ret.err = NoErr /\ NoErrItems
    /\ N = 3
    /\ dest.slice.elems = <<RecOf(1), RecOf(2), RecOf(3)>>
    /\ ret.rowIDs.elems = <<RowIDOf(1), RowIDOf(2), RowIDOf(3)>>

\* C10: when LoadNext returns an error other than IteratorDone, ReadAll stops
\* at once: it returns that error with no RowID list, makes no further
\* LoadNext call and leaves the destination as it was before the call.
C10_ReadAllError ==
    [][(/\ op' = "ReadAll"
        /\ it.kind # "nil"
        /\ dest.kind = "ptrSliceProto"
        /\ FirstErrPos(it) # 0)
       => (/\ ret'.err = it.items[FirstErrPos(it)].err
           /\ ret'.rowIDs = NilSlice
           /\ it'.loads = it.loads + FirstErrPos(it)
           /\ dest' = dest)]_vars

\* ReadAll failed after two successful records; the destination still holds
\* what it held before
C10_Witness ==
    /\ op = "ReadAll" /\ ret.err = ErrDecode
    /\ FirstErrPos(it) = 3 /\ it.loads = 3 /\ N = 4
    /\ dest.slice = MkSlice(<<0>>)
    /\ ret.rowIDs = NilSlice

\* C11: First makes exactly one LoadNext call whatever the iterator holds;
\* on success it returns the RowID of the first record; on any LoadNext error,
\* IteratorDone of an exhausted iterator included, it returns that error with
\* no RowID and leaves the destination unmodified.
C11_FirstLoadsOne ==
    [][(op' = "First" /\ it.kind # "nil") =>
        /\ it'.loads = it.loads + 1
        /\ IF Len(it.items) = 0
           THEN ret'.err = ErrIteratorDone /\ ret'.rowID = NilSlice /\ model' = model
           ELSE IF it.items[1].err # NoErr
           THEN ret'.err = it.items[1].err /\ ret'.rowID = NilSlice /\ model' = model
           ELSE /\ ret'.err = NoErr
                /\ ret'.rowID = it.items[1].rowID
                /\ model'.val = it.items[1].rec]_vars

\* First over an iterator whose first record fails and that holds more records
C11_Witness ==
    /\ op = "First" /\ ret.err = ErrDecode /\ ret.rowID = NilSlice
    /\ N = 3 /\ it.items[2].err = NoErr
    /\ it.loads = 1 /\ it.pos = 1
    /\ model.val = 0

\* ------------------------------------------------- paging through a store
\* A client reads a store of error-free records page by page with a fixed
\* limit, once by offset (offsets o, o+L, o+2L, ...) and once by cursor (each
\* call given the nextKey of the page before). pages.off and pages.key hold
\* the pages each walk has fetched: [offset, recs, nextKey, err].

\* the iterator the storage layer returns for a query over the whole store
StoreIterator(store) == [NilIterator EXCEPT !.kind = "seq", !.items = store]

\* the iterator the storage layer returns for a query resumed at key k: it
\* is positioned at the record whose RowID is k
PositionedIterator(store, k) ==
    LET at == CHOOSE j \in 1..Len(store) : store[j].rowID = k IN
    [NilIterator EXCEPT !.kind = "seq",
                        !.items = SubSeq(store, at, Len(store))]

PagingInit ==
    /\ \E n \in 0..MaxN :
        /\ it = SeqIterator(n, {})
        /\ pages = [store |-> SeqIterator(n, {}).items, off |-> <<>>, key |-> <<>>]
    /\ dest \in {d \in Dests : d.kind = "ptrSliceProto"}
    /\ model = [isNil |-> FALSE, val |-> 0]
    /\ pageRequest = NilPageRequest
    /\ op = "none"
    /\ ret = NoRet
    /\ log = <<>>

\* the page a Paginate call produced
PageOf(offset, r) ==
    [offset |-> offset, recs |-> r.dest.slice.elems,
     nextKey |-> r.res.NextKey, err |-> r.err]

\* the first page: Paginate by offset o with limit l; both walks start from it
FirstPage ==
    /\ pages.off = <<>>
    /\ \E o \in 0..MaxOffset, l \in 1..MaxLimit, c \in BOOLEAN :
        LET pr == [isNil |-> FALSE, Offset |-> o, Key |-> NilSlice,
                   Limit |-> l, CountTotal |-> c]
            r == Paginate(StoreIterator(pages.store), pr, dest) IN
        /\ pageRequest' = pr
        /\ it' = r.it
        /\ dest' = r.dest
        /\ ret' = [NoRet EXCEPT !.err = r.err, !.res = r.res]
        /\ pages' = [pages EXCEPT !.off = <<PageOf(o, r)>>, !.key = <<PageOf(o, r)>>]
    /\ op' = "Paginate"
    /\ UNCHANGED <<model, log>>

\* the next page by offset: offset of the last page + limit, a fresh iterator
PageByOffset ==
    /\ pages.off # <<>>
    /\ LET last == pages.off[Len(pages.off)] IN
        /\ ~last.nextKey.isNil
        /\ \E c \in BOOLEAN :
            LET o == last.offset + pageRequest.Limit
                pr == [isNil |-> FALSE, Offset |-> o, Key |-> NilSlice,
                       Limit |-> pageRequest.Limit, CountTotal |-> c]
                r == Paginate(StoreIterator(pages.store), pr, dest) IN
            /\ pageRequest' = pr
            /\ it' = r.it
            /\ dest' = r.dest
            /\ ret' = [NoRet EXCEPT !.err = r.err, !.res = r.res]
            /\ pages' = [pages EXCEPT !.off = Append(@, PageOf(o, r))]
    /\ op' = "Paginate"
    /\ UNCHANGED <<model, log>>

\* the next page by cursor: key = nextKey of the last page, offset 0, an
\* iterator positioned at that key
PageByKey ==
    /\ pages.key # <<>>
    /\ LET last == pages.key[Len(pages.key)] IN
        /\ ~last.nextKey.isNil
        /\ \E c \in BOOLEAN :
            LET pr == [isNil |-> FALSE, Offset |-> 0, Key |-> last.nextKey,
                       Limit |-> pageRequest.Limit, CountTotal |-> c]
                r == Paginate(PositionedIterator(pages.store, last.nextKey), pr, dest) IN
            /\ pageRequest' = pr
            /\ it' = r.it
            /\ dest' = r.dest
            /\ ret' = [NoRet EXCEPT !.err = r.err, !.res = r.res]
            /\ pages' = [pages EXCEPT !.key = Append(@, PageOf(0, r))]
    /\ op' = "Paginate"
    /\ UNCHANGED <<model, log>>

PagingNext == FirstPage \/ PageByOffset \/ PageByKey

PagingSpec == PagingInit /\ [][PagingNext]_vars

\* ------------------------------------------- properties of the iterators
\* the positions in log of the LoadNext calls, and of those given a non-nil
\* destination
LoadIdx == {j \in 1..Len(log) : log[j].call = "LoadNext"}

NonNilIdx == {j \in LoadIdx : ~log[j].destNil}

CloseIdx == {j \in 1..Len(log) : log[j].call = "Close"}

\* the LoadNext calls that delivered a record
OkIdx == {j \in LoadIdx : log[j].err = NoErr}

\* log[j] is the first LoadNext call given a non-nil destination
IsFirstNonNil(j) == j \in NonNilIdx /\ \A k \in NonNilIdx : k >= j

C13_EmptyBufferDone ==
    (it.kind = "single" /\ Len(it.val.elems) = 0) =>
        /\ \A j \in NonNilIdx : IsFirstNonNil(j) => log[j].err = ErrIteratorDone
        /\ OkIdx = {}

\* C14: once a LoadNext call on a single-value or limited iterator has
\* returned IteratorDone, every later LoadNext call on it returns
\* IteratorDone, for any argument.
C14_DoneForAnyArgument ==
    (it.kind \in {"single", "limited"}) =>
        \A j, k \in LoadIdx :
            (j < k /\ log[j].err = ErrIteratorDone) => log[k].err = ErrIteratorDone

\* C14 as amended: once a LoadNext call has returned IteratorDone, every
\* later LoadNext call given a non-nil destination returns IteratorDone.
C14_DoneForNonNilDest ==
    (it.kind \in {"single", "limited"}) =>
        \A j \in LoadIdx : \A k \in NonNilIdx :
            (j < k /\ log[j].err = ErrIteratorDone) => log[k].err = ErrIteratorDone

\* a limited iterator whose count ran out after one record, asked twice more
C14_Witness ==
    /\ it.kind = "limited" /\ it.max = 1 /\ it.parent[1].kind = "seq"
    /\ Len(it.parent[1].items) = 3
    /\ Len(log) = 3 /\ NonNilIdx = {1, 2, 3}
    /\ log[1].err = NoErr
    /\ log[2].err = ErrIteratorDone
    /\ log[3].err = ErrIteratorDone

\* the parent of the limited iterator holds at least max records and yields
\* them without error
ParentHoldsMax ==
    /\ it.kind = "limited"
    /\ it.parent[1].kind = "seq"
    /\ Len(it.parent[1].items) >= it.max
    /\ \A j \in 1..Len(it.parent[1].items) : it.parent[1].items[j].err = NoErr

\* the number of LoadNext calls among log[1..j]
LoadRank(j) == Cardinality({k \in LoadIdx : k <= j})

\* C15: for every max >= 0 and a parent holding at least max records, a
\* limited iterator yields exactly the parent's first max records and then
\* IteratorDone on every later call; it calls the parent's LoadNext at most
\* max times in total (never when max = 0), and its Close calls the parent's
\* Close and returns its result.
C15_LimitedYieldsMax ==
    ParentHoldsMax =>
        /\ (LoadIdx = NonNilIdx =>
              \A j \in LoadIdx :
                IF LoadRank(j) <= it.max
                THEN /\ log[j].err = NoErr
                     /\ log[j].rowID = it.parent[1].items[LoadRank(j)].rowID
                     /\ log[j].rec = it.parent[1].items[LoadRank(j)].rec
                ELSE log[j].err = ErrIteratorDone /\ log[j].rowID = NilSlice)
        /\ it.parent[1].loads <= it.max
        /\ it.parent[1].closes = Cardinality(CloseIdx)
        /\ \A j \in CloseIdx : log[j].err = it.parent[1].closeErr

\* two records delivered, then IteratorDone, then a Close passing on the
\* parent's error
C15_Witness ==
    /\ ParentHoldsMax /\ it.max = 2 /\ Len(it.parent[1].items) = 4
    /\ Len(log) = 4 /\ NonNilIdx = {1, 2, 3} /\ CloseIdx = {4}
    /\ log[2].rowID = RowIDOf(2)
    /\ log[3].err = ErrIteratorDone
    /\ log[4].err = ErrClose
    /\ it.parent[1].loads = 2 /\ it.parent[1].closes = 1

\* C16: the invalid iterator returns IteratorInvalid on every LoadNext call,
\* for any destination, any number of calls and after Close; it never returns
\* IteratorDone or a record.
C16_InvalidAlways ==
    (it.kind = "invalid") =>
        /\ \A j \in LoadIdx :
            log[j].err = ErrIteratorInvalid /\ log[j].rowID = NilSlice
        /\ model.val = 0

\* LoadNext after Close, with a nil and with a non-nil destination
C16_Witness ==
    /\ it.kind = "invalid"
    /\ Len(log) = 4 /\ CloseIdx = {2} /\ NonNilIdx = {1, 3}
    /\ log[3].err = ErrIteratorInvalid /\ log[4].err = ErrIteratorInvalid

\* C18: the remaining count of a limited iterator built with max is always
\* max minus the number of its LoadNext calls that succeeded; a call that
\* returns an error or IteratorDone from the parent leaves it unchanged.
C18_RemainingCountsSuccesses ==
    (it.kind = "limited") => it.remainingCount = it.max - Cardinality(OkIdx)

\* C17: destination validation, run by ReadAll and Paginate before any
\* LoadNext call, rejects with ArgumentError a nil destination, a non-pointer,
\* a pointer to a non-sequence and a pointer to a sequence of non-Decodable
\* elements, with no LoadNext call and the destination unchanged; a pointer to
\* a sequence of Decodable elements is accepted.
C17_DestValidation ==
    [][(/\ op' \in {"ReadAll", "Paginate"}
        /\ it.kind # "nil"
        /\ (op' = "Paginate" =>
                ~(pageRequest'.Offset > 0 /\ ~pageRequest'.Key.isNil)))
       => IF dest.kind \in {"nil", "nonPtr", "ptrNonSlice", "ptrSliceNonProto"}
          THEN ret'.err = ErrArgument /\ it'.loads = it.loads /\ dest' = dest
          ELSE ret'.err # ErrArgument]_vars

\* Paginate over a non-empty iterator with a slice of non-Decodable elements
C17_Witness ==
    /\ op = "Paginate" /\ dest.kind = "ptrSliceNonProto"
    /\ ret.err = ErrArgument
    /\ N = 3 /\ it.loads = 0 /\ it.closes = 1

\* C19: over an iterator of N > end error-free records, Paginate makes exactly
\* end+1 LoadNext calls when countTotal is not in effect or a key was
\* supplied; otherwise it calls LoadNext until IteratorDone (N+1 calls) and
\* appends nothing read after position end.
C19_ScanLength ==
    (PaginateOK /\ NoErrItems /\ N > ReqEnd) =>
        /\ it.loads = IF ~ReqCountTotal \/ ReqHasKey THEN ReqEnd + 1 ELSE N + 1
        /\ dest.slice.elems = RecsBetween(ReqOffset, ReqEnd)

\* the counting scan runs three records past the page
C19_Witness ==
    /\ PaginateOK /\ NoErrItems
    /\ N = 4 /\ ReqOffset = 0 /\ pageRequest.Limit = 1
    /\ pageRequest.CountTotal /\ ~ReqHasKey
    /\ it.loads = 5
    /\ dest.slice.elems = <<RecOf(1)>>

\* the records of a sequence of pages, concatenated
RECURSIVE Concat(_)
Concat(ps) ==
    IF ps = <<>> THEN <<>> ELSE ps[1].recs \o Concat(Tail(ps))

\* the walk has fetched its last page
WalkDone(ps) == ps # <<>> /\ ps[Len(ps)].nextKey.isNil

\* the records of the store after the first o
StoreRecsFrom(o) ==
    IF o >= Len(pages.store) THEN <<>>
    ELSE [j \in 1..(Len(pages.store) - o) |-> pages.store[o + j].rec]

\* C20: offset paging and cursor paging agree: after a page at offset o with
\* limit L > 0 that returned nextKey k, the page at offset o+L and the page
\* read with key k from the iterator positioned at k hold the same records
\* and the same nextKey; and the pages at offsets o, o+L, o+2L, ... put
\* together are the store's records after the first o, none missing or
\* repeated.
C20_OffsetAndCursorAgree ==
    /\ \A n \in 1..Len(pages.off) :
        /\ pages.off[n].err = NoErr
        /\ n <= Len(pages.key) =>
            /\ pages.key[n].err = NoErr
            /\ pages.key[n].recs = pages.off[n].recs
            /\ pages.key[n].nextKey = pages.off[n].nextKey
    /\ \A n \in 1..Len(pages.key) : pages.key[n].err = NoErr
    /\ (WalkDone(pages.off) => Concat(pages.off) = StoreRecsFrom(pages.off[1].offset))
    /\ (WalkDone(pages.key) => Concat(pages.key) = StoreRecsFrom(pages.off[1].offset))

\* both walks have read records 2..4 of a store of four in three pages
C20_Witness ==
    /\ Len(pages.store) = 4
    /\ Len(pages.off) = 3 /\ Len(pages.key) = 3
    /\ pages.off[1].offset = 1 /\ pages.off[3].offset = 3
    /\ pages.off[1].nextKey = RowIDOf(3)
    /\ pages.key[2].recs = <<RecOf(3)>> /\ pages.key[2].nextKey = RowIDOf(4)
    /\ pages.key[3].recs = <<RecOf(4)>>
    /\ WalkDone(pages.off) /\ WalkDone(pages.key)

====
